---- MODULE Spec2Model ----
(***************************************************************************)
(* A model of Squiss, the SQS poller (src/src/index.js), its Message       *)
(* wrapper (src/src/Message.js) and its TimeoutExtender                    *)
(* (src/unnamed/part_009), against the SQS stub of the test suite          *)
(* (src/unnamed/part_003).                                                 *)
(*                                                                         *)
(* Every handler of the source is a pure operator on a record of the       *)
(* instance's fields; an action applies one handler to the current state.  *)
(* `emitted' and `issued' hold the signals emitted and the service calls   *)
(* issued by the most recent handler only.                                 *)
(***************************************************************************)
EXTENDS Integers, Sequences, FiniteSets, TLC

\* ------------------------------------------------------------------ bounds
MaxCap == 3          \* largest configured maxInFlight
MaxBatch == 2        \* largest configured receiveBatchSize
MaxDepth == 4        \* messages initially in the service queue
MaxTimers == 1       \* poll timers pending at once
MaxPending == 1      \* _startPoller continuations pending at once
MaxDelBatch == 2     \* largest configured deleteBatchSize (SpecDispose)
DispDepth == 2       \* messages initially in the service queue (SpecDispose)
MaxDirect == 1       \* direct calls of the public disposal methods
MaxDelCalls == 1     \* batch-delete calls outstanding at once
RetryDepth == 2      \* messages initially in the service queue (SpecRetry)
ExtMsgs == 2         \* messages handed to the TimeoutExtender (SpecExt)
ExtTicks == 4        \* half seconds of clock time (SpecExt)
ExtCalls == 2        \* changeMessageVisibility calls outstanding at once
ExtVisSecs == 1      \* largest visibilityTimeoutSecs (SpecExt)
ExtStopSecs == 2     \* the short noExtensionsAfterSecs (SpecExt)
FlushDelBatch == 3   \* largest configured deleteBatchSize (SpecFlush)
FlushDepth == 2      \* messages initially in the service queue (SpecFlush)
MaxSend == 21        \* longest sequence handed to sendMessages (SpecSend)
MaxUrlCalls == 4     \* invocations of getQueueUrl (SpecUrl)
LifeVisSecs == 2     \* largest visibility timeout in seconds (SpecExtLife)
DelMsgs == 1         \* messages handed to the extender (SpecExtDelete)
DelTicks == 4        \* half seconds of clock time (SpecExtDelete)
DelCalls == 1        \* renew calls in flight (SpecExtDelete)

\* ------------------------------------------------------- program constants
AwsMaxReceiveBatch == 10
AwsMaxDeleteBatch == 10
AWS_MAX_SEND_BATCH == 10
MAX_MESSAGE_AGE_MS == 43200000
MsPerSec == 1000
DefaultVisibilityTimeoutSecs == 30
DefaultAdvancedCallMs == 5000

Min(a, b) == IF a < b THEN a ELSE b

VARIABLES
  \* configuration, fixed by the constructor
  maxInFlight, receiveBatchSize, deleteBatchSize,
  activePollIntervalMs, idlePollIntervalMs,
  \* Squiss instance
  running, paused, inFlight, activeReq, delQueue, delTimer,
  \* the length of the delete queue when the pending delete timer was armed
  delTimerArmedAt,
  \* event loop: continuations, timers and requests in flight
  pendingStart, pollTimers, delCalls,
  \* the service queue and the Message objects handed to the application
  sqsMsgs, delivered, handled,
  \* observation
  emitted, issued, gotLog, disposeCalls, repeated, directCalls,
  capDelivered, capInFlight,
  \* TimeoutExtender: configuration, list, index and timer
  visTimeout, stopAfter, apiLeadMs, nodes, head, tail, index, timer, timerAt,
  \* the clock, the changeMessageVisibility calls in flight, and observation
  now, cmvCalls, threw, tracked, disposed,
  \* one sendMessages call: its argument, the sendMessageBatch calls it
  \* issued, their completions in order of arrival, and the promise returned
  sendMsgs, sendCalls, sendDone, sendResult,
  \* the cached queue URL and the promises getQueueUrl has returned
  queueUrl, getUrl

cfgVars == <<maxInFlight, receiveBatchSize, deleteBatchSize,
             activePollIntervalMs, idlePollIntervalMs>>
vars == <<maxInFlight, receiveBatchSize, deleteBatchSize,
          activePollIntervalMs, idlePollIntervalMs,
          running, paused, inFlight, activeReq, delQueue, delTimer,
          delTimerArmedAt, pendingStart, pollTimers, delCalls,
          sqsMsgs, delivered, handled,
          emitted, issued, gotLog, disposeCalls, repeated, directCalls,
          capDelivered, capInFlight,
          visTimeout, stopAfter, apiLeadMs, nodes, head, tail, index, timer,
          timerAt, now, cmvCalls, threw, tracked, disposed,
          sendMsgs, sendCalls, sendDone, sendResult, queueUrl, getUrl>>

urlVars == <<queueUrl, getUrl>>

sendVars == <<sendMsgs, sendCalls, sendDone, sendResult>>

extVars == <<visTimeout, stopAfter, apiLeadMs, nodes, head, tail, index, timer,
             timerAt, now, cmvCalls, threw, tracked, disposed>>

squissVars == <<maxInFlight, receiveBatchSize, deleteBatchSize,
                activePollIntervalMs, idlePollIntervalMs,
                running, paused, inFlight, activeReq, delQueue, delTimer,
                delTimerArmedAt, pendingStart, pollTimers, delCalls, sqsMsgs, delivered,
                handled, gotLog, disposeCalls, repeated, directCalls,
                capDelivered, capInFlight>>

Max(a, b) == IF a > b THEN a ELSE b

Msgs == 1..Max(MaxDepth, Max(DispDepth, FlushDepth))

Sig(name, arg) == [name |-> name, arg |-> arg]

\* The current state as one record, with the observation of the last handler
\* cleared: what a handler starts from.
Cur ==
  [running |-> running, paused |-> paused, inFlight |-> inFlight,
   activeReq |-> activeReq, delQueue |-> delQueue, delTimer |-> delTimer,
   delTimerArmedAt |-> delTimerArmedAt,
   pendingStart |-> pendingStart, pollTimers |-> pollTimers,
   delCalls |-> delCalls, sqsMsgs |-> sqsMsgs, delivered |-> delivered,
   handled |-> handled, emitted |-> <<>>, issued |-> <<>>, gotLog |-> gotLog,
   disposeCalls |-> disposeCalls, repeated |-> repeated,
   directCalls |-> directCalls,
   capDelivered |-> capDelivered, capInFlight |-> capInFlight]

Apply(s) ==
  /\ running' = s.running
  /\ paused' = s.paused
  /\ inFlight' = s.inFlight
  /\ activeReq' = s.activeReq
  /\ delQueue' = s.delQueue
  /\ delTimer' = s.delTimer
  /\ delTimerArmedAt' = s.delTimerArmedAt
  /\ pendingStart' = s.pendingStart
  /\ pollTimers' = s.pollTimers
  /\ delCalls' = s.delCalls
  /\ sqsMsgs' = s.sqsMsgs
  /\ delivered' = s.delivered
  /\ handled' = s.handled
  /\ emitted' = s.emitted
  /\ issued' = s.issued
  /\ gotLog' = s.gotLog
  /\ disposeCalls' = s.disposeCalls
  /\ repeated' = s.repeated
  /\ directCalls' = s.directCalls
  /\ capDelivered' = s.capDelivered
  /\ capInFlight' = s.capInFlight
  /\ UNCHANGED cfgVars
  /\ UNCHANGED extVars
  /\ UNCHANGED sendVars
  /\ UNCHANGED urlVars

\* ------------------------------------------------------------- constructor
\* Math.min(receiveBatchSize, maxInFlight > 0 ? maxInFlight : 10, 10)
clampReceiveBatchSize(cfg, cap) ==
  Min(Min(cfg, IF cap > 0 THEN cap ELSE AwsMaxReceiveBatch), AwsMaxReceiveBatch)

\* Math.min(deleteBatchSize, 10)
clampDeleteBatchSize(cfg) == Min(cfg, AwsMaxDeleteBatch)

\* ------------------------------------------------------------------ Squiss
emit(s, name, arg) == [s EXCEPT !.emitted = Append(@, Sig(name, arg))]

call(s, name, arg) == [s EXCEPT !.issued = Append(@, Sig(name, arg))]

\* A cap check that only asks for one free slot.
slotsAvailableStrict(s) ==
  maxInFlight = 0 \/ s.inFlight < maxInFlight

\* A cap check that treats a cap of 0 as a cap.
slotsAvailableCapped(s) ==
  s.inFlight <= maxInFlight - receiveBatchSize

slotsAvailable(s) ==
  maxInFlight = 0 \/ s.inFlight <= maxInFlight - receiveBatchSize

\* getQueueUrl().then(queueUrl => this._getBatch(queueUrl)): the continuation
\* runs in a later turn of the event loop.
startPoller(s) == [s EXCEPT !.pendingStart = @ + 1]

\* A disposal that resumes a paused poller without asking for free slots.
handledMessageEager(s) ==
  LET s1 == [s EXCEPT !.inFlight = @ - 1]
      s2 == IF s1.paused
            THEN startPoller([s1 EXCEPT !.paused = FALSE])
            ELSE s1
  IN IF s2.inFlight = 0 THEN emit(s2, "drained", <<>>) ELSE s2

\* A disposal that never reports an empty in-flight set.
handledMessageNoDrain(s) ==
  LET s1 == [s EXCEPT !.inFlight = @ - 1]
  IN IF s1.paused /\ slotsAvailable(s1)
     THEN startPoller([s1 EXCEPT !.paused = FALSE])
     ELSE s1

\* A handledMessage that clears _paused without starting the poller.
handledMessageNoRestart(s) ==
  LET s1 == [s EXCEPT !.inFlight = @ - 1]
      s2 == IF s1.paused /\ slotsAvailable(s1)
            THEN [s1 EXCEPT !.paused = FALSE]
            ELSE s1
  IN IF s2.inFlight = 0 THEN emit(s2, "drained", <<>>) ELSE s2

handledMessage(s) ==
  LET s1 == [s EXCEPT !.inFlight = @ - 1]
      s2 == IF s1.paused /\ slotsAvailable(s1)
            THEN startPoller([s1 EXCEPT !.paused = FALSE])
            ELSE s1
  IN IF s2.inFlight = 0 THEN emit(s2, "drained", <<>>) ELSE s2

deleteMessages(s, batch) ==
  call([s EXCEPT !.delCalls = Append(@, batch)], "deleteMessageBatch", batch)

\* setTimeout(..., deleteWaitMs) for the delete queue as it stands.
armDelTimer(s) ==
  [s EXCEPT !.delTimer = TRUE, !.delTimerArmedAt = Len(s.delQueue)]

\* clearTimeout(this._delTimer); this._delTimer = null
clearDelTimer(s) == [s EXCEPT !.delTimer = FALSE, !.delTimerArmedAt = 0]

\* A deleteMessage whose size-triggered flush leaves the timer pending.
deleteMessageKeepTimer(s, m) ==
  LET s1 == handledMessage([s EXCEPT !.delQueue = Append(@, m)])
      n  == Min(deleteBatchSize, Len(s1.delQueue))
  IN IF Len(s1.delQueue) >= deleteBatchSize
     THEN deleteMessages([s1 EXCEPT !.delQueue = SubSeq(@, n + 1, Len(@))],
                         SubSeq(s1.delQueue, 1, n))
     ELSE IF ~s1.delTimer THEN armDelTimer(s1) ELSE s1

\* A deleteMessage that arms a timer at every enqueue below the batch size.
deleteMessageArmAlways(s, m) ==
  LET s1 == handledMessage([s EXCEPT !.delQueue = Append(@, m)])
      n  == Min(deleteBatchSize, Len(s1.delQueue))
  IN IF Len(s1.delQueue) >= deleteBatchSize
     THEN deleteMessages(
            [clearDelTimer(s1) EXCEPT !.delQueue = SubSeq(@, n + 1, Len(@))],
            SubSeq(s1.delQueue, 1, n))
     ELSE armDelTimer(s1)

\* A deleteMessage that flushes only once the queue exceeds deleteBatchSize.
deleteMessageFlushAbove(s, m) ==
  LET s1 == handledMessage([s EXCEPT !.delQueue = Append(@, m)])
      n  == Min(deleteBatchSize, Len(s1.delQueue))
  IN IF Len(s1.delQueue) > deleteBatchSize
     THEN deleteMessages(
            [clearDelTimer(s1) EXCEPT !.delQueue = SubSeq(@, n + 1, Len(@))],
            SubSeq(s1.delQueue, 1, n))
     ELSE IF ~s1.delTimer THEN armDelTimer(s1) ELSE s1

deleteMessage(s, m) ==
  LET s1 == handledMessage([s EXCEPT !.delQueue = Append(@, m)])
      n  == Min(deleteBatchSize, Len(s1.delQueue))
  IN IF Len(s1.delQueue) >= deleteBatchSize
     THEN deleteMessages(
            [clearDelTimer(s1) EXCEPT !.delQueue = SubSeq(@, n + 1, Len(@))],
            SubSeq(s1.delQueue, 1, n))
     ELSE IF ~s1.delTimer THEN armDelTimer(s1) ELSE s1

\* A timer callback that sends the oldest queued delete and drops the rest.
delTimerFiredFirstOnly(s) ==
  deleteMessages([clearDelTimer(s) EXCEPT !.delQueue = <<>>],
                 SubSeq(s.delQueue, 1, Min(1, Len(s.delQueue))))

\* A timer callback that sends the queue and leaves it as it is.
delTimerFiredKeepQueue(s) ==
  deleteMessages(clearDelTimer(s), s.delQueue)

\* The callback of the timer armed by deleteMessage.
delTimerFired(s) ==
  deleteMessages([clearDelTimer(s) EXCEPT !.delQueue = <<>>], s.delQueue)

releaseMessage(s, m) ==
  call(handledMessage(s), "changeMessageVisibility", <<m, 0>>)

\* A _getBatch that does not look at _activeReq.
getBatchNoReqGuard(s) ==
  IF ~s.running
  THEN s
  ELSE call([s EXCEPT !.activeReq = "open"], "receiveMessage",
            <<receiveBatchSize>>)

\* A _getBatch that does not look at _running.
getBatchUnguarded(s) ==
  IF s.activeReq # "none"
  THEN s
  ELSE call([s EXCEPT !.activeReq = "open"], "receiveMessage",
            <<receiveBatchSize>>)

getBatch(s) ==
  IF s.activeReq # "none" \/ ~s.running
  THEN s
  ELSE call([s EXCEPT !.activeReq = "open"], "receiveMessage",
            <<receiveBatchSize>>)

\* A stop() that cancels the outstanding receive whatever `soft' is.
stopAlwaysAbort(s, soft) ==
  [s EXCEPT !.activeReq = IF @ = "open" THEN "aborted" ELSE @,
            !.running = FALSE,
            !.paused = FALSE]

start(s) ==
  IF ~s.running THEN startPoller([s EXCEPT !.running = TRUE]) ELSE s

stop(s, soft) ==
  [s EXCEPT !.activeReq = IF ~soft /\ @ = "open" THEN "aborted" ELSE @,
            !.running = FALSE,
            !.paused = FALSE]

\* ----------------------------------------------------------------- Message
\* disposeCalls[m]: how many times Message m has called a disposal method of
\* Squiss; repeated: del/keep/release has been called on a Message whose
\* _handled was already set.
\* A del() without the _handled guard.
msgDelUnguarded(s, m) ==
  [deleteMessage(s, m) EXCEPT !.handled = @ \cup {m},
                              !.disposeCalls[m] = @ + 1]

msgDel(s, m) ==
  IF m \notin s.handled
  THEN [deleteMessage(s, m) EXCEPT !.handled = @ \cup {m},
                                   !.disposeCalls[m] = @ + 1]
  ELSE [s EXCEPT !.repeated = TRUE]

msgKeep(s, m) ==
  IF m \notin s.handled
  THEN [handledMessage(s) EXCEPT !.handled = @ \cup {m},
                                 !.disposeCalls[m] = @ + 1]
  ELSE [s EXCEPT !.repeated = TRUE]

msgRelease(s, m) ==
  IF m \notin s.handled
  THEN [releaseMessage(s, m) EXCEPT !.handled = @ \cup {m},
                                    !.disposeCalls[m] = @ + 1]
  ELSE [s EXCEPT !.repeated = TRUE]

\* Disposal with a `drained' listener that calls keep() on Message l (l = 0:
\* no such listener). emit() runs the listener before it returns, inside
\* handledMessage and so before the disposing Message has set _handled.
RECURSIVE handledMessageListened(_, _)
RECURSIVE msgKeepListened(_, _, _)
drainedListener(s, l) == IF l = 0 THEN s ELSE msgKeepListened(s, l, l)

handledMessageListened(s, l) ==
  LET s1 == [s EXCEPT !.inFlight = @ - 1]
      s2 == IF s1.paused /\ slotsAvailable(s1)
            THEN startPoller([s1 EXCEPT !.paused = FALSE])
            ELSE s1
  IN IF s2.inFlight = 0 THEN drainedListener(emit(s2, "drained", <<>>), l) ELSE s2

msgKeepListened(s, m, l) ==
  IF m \notin s.handled
  THEN [handledMessageListened(s, l) EXCEPT !.handled = @ \cup {m},
                                           !.disposeCalls[m] = @ + 1]
  ELSE [s EXCEPT !.repeated = TRUE]

deleteMessageListened(s, m, l) ==
  LET s1 == handledMessageListened([s EXCEPT !.delQueue = Append(@, m)], l)
      n  == Min(deleteBatchSize, Len(s1.delQueue))
  IN IF Len(s1.delQueue) >= deleteBatchSize
     THEN deleteMessages(
            [clearDelTimer(s1) EXCEPT !.delQueue = SubSeq(@, n + 1, Len(@))],
            SubSeq(s1.delQueue, 1, n))
     ELSE IF ~s1.delTimer THEN armDelTimer(s1) ELSE s1

msgDelListened(s, m, l) ==
  IF m \notin s.handled
  THEN [deleteMessageListened(s, m, l) EXCEPT !.handled = @ \cup {m},
                                             !.disposeCalls[m] = @ + 1]
  ELSE [s EXCEPT !.repeated = TRUE]

\* What a `message' listener does with the Message before it returns.
listener(s, m, reaction) ==
  CASE reaction = "keep"    -> msgKeep(s, m)
    [] reaction = "del"     -> msgDel(s, m)
    [] reaction = "release" -> msgRelease(s, m)
    [] OTHER                -> s

\* reaction[i]: what the listener does with the i-th message of the batch.
RECURSIVE emitMessagesFrom(_, _, _, _)
emitMessagesFrom(s, messages, reaction, i) ==
  IF i > Len(messages) THEN s
  ELSE LET m  == messages[i]
           s1 == emit([s EXCEPT !.inFlight = @ + 1,
                                !.delivered = @ \cup {m}],
                      "message", <<m>>)
       IN emitMessagesFrom(listener(s1, m, reaction[i]), messages, reaction, i + 1)

emitMessages(s, messages, reaction) == emitMessagesFrom(s, messages, reaction, 1)

\* ------------------------------------------------------------ the service
\* SQSStub.receiveMessage: msgs.splice(0, MaxNumberOfMessages)
\* A service that returns one message per receive.
sqsReceiveOne(msgs, max) == SubSeq(msgs, 1, Min(1, Len(msgs)))

sqsReceive(msgs, max) == SubSeq(msgs, 1, Min(max, Len(msgs)))

\* --------------------------------------------- _getBatch's promise handlers
setPollTimer(s) == [s EXCEPT !.pollTimers = @ + 1]

\* Observation: the deliveries and the in-flight count at the first
\* `maxInFlight' signal.
noteCap(s) ==
  IF s.capDelivered = 0
  THEN [s EXCEPT !.capDelivered = Cardinality(s.delivered),
                 !.capInFlight = s.inFlight]
  ELSE s

receiveThen(s, reaction) ==
  LET messages == sqsReceive(s.sqsMsgs, receiveBatchSize)
      n  == Len(messages)
      s0 == [s EXCEPT !.activeReq = "none",
                      !.sqsMsgs = SubSeq(@, n + 1, Len(@))]
      s1 == IF n > 0
            THEN emitMessages(
                   emit([s0 EXCEPT !.gotLog = Append(@, n)], "gotMessages", <<n>>),
                   messages, reaction)
            ELSE emit(s0, "queueEmpty", <<>>)
  IN IF slotsAvailable(s1)
     THEN IF n > 0 /\ activePollIntervalMs # 0 THEN setPollTimer(s1)
          ELSE IF n = 0 /\ idlePollIntervalMs # 0 THEN setPollTimer(s1)
          ELSE getBatch(s1)
     ELSE emit(noteCap([s1 EXCEPT !.paused = TRUE]), "maxInFlight", <<>>)

\* A catch handler that treats a cancellation as any other failure.
receiveCatchAlwaysRetry(s, aborted) ==
  emit(setPollTimer([s EXCEPT !.activeReq = "none"]), "error", <<>>)

\* A catch handler that reports a failure without arming the retry timer.
receiveCatchNoRetry(s, aborted) ==
  LET s0 == [s EXCEPT !.activeReq = "none"]
  IN IF aborted THEN emit(s0, "aborted", <<>>)
     ELSE emit(s0, "error", <<>>)

receiveCatch(s, aborted) ==
  LET s0 == [s EXCEPT !.activeReq = "none"]
  IN IF aborted THEN emit(s0, "aborted", <<>>)
     ELSE emit(setPollTimer(s0), "error", <<>>)

\* _deleteMessages' promise handlers; failed: the positions of the batch the
\* service reports as failed.
RECURSIVE emitDelErrors(_, _, _, _)
emitDelErrors(s, batch, failed, i) ==
  IF i > Len(batch) THEN s
  ELSE emitDelErrors(IF i \in failed THEN emit(s, "delError", <<batch[i]>>) ELSE s,
                     batch, failed, i + 1)

RemoveAt(seq, i) == SubSeq(seq, 1, i - 1) \o SubSeq(seq, i + 1, Len(seq))

\* A then-handler that releases the in-flight slot when the service answers.
deleteThenHandled(s, i, failed) ==
  handledMessage(emitDelErrors([s EXCEPT !.delCalls = RemoveAt(@, i)], s.delCalls[i], failed, 1))

deleteThen(s, i, failed) ==
  emitDelErrors([s EXCEPT !.delCalls = RemoveAt(@, i)], s.delCalls[i], failed, 1)

\* A catch handler that puts the failed batch back on the delete queue.
deleteCatchRequeue(s, i) ==
  emit([s EXCEPT !.delCalls = RemoveAt(@, i),
                 !.delQueue = @ \o s.delCalls[i]], "error", <<>>)

deleteCatch(s, i) ==
  emit([s EXCEPT !.delCalls = RemoveAt(@, i)], "error", <<>>)

\* --------------------------------------------------------- TimeoutExtender
\* A node is the wrapper object of one message; 0 stands for null/undefined.
\* nodes[m].next and nodes[m].prev are the object's own properties, which
\* survive the node's removal from the list unless the code deletes them.
XMsgs == 1..ExtMsgs

NoNode == [receivedOn |-> 0, timerOn |-> 0, next |-> 0, prev |-> 0]

XCur ==
  [nodes |-> nodes, head |-> head, tail |-> tail, index |-> index,
   timer |-> timer, timerAt |-> timerAt, now |-> now, cmvCalls |-> cmvCalls,
   threw |-> threw, tracked |-> tracked, disposed |-> disposed,
   emitted |-> <<>>, issued |-> <<>>]

XApply(x) ==
  /\ nodes' = x.nodes
  /\ head' = x.head
  /\ tail' = x.tail
  /\ index' = x.index
  /\ timer' = x.timer
  /\ timerAt' = x.timerAt
  /\ now' = x.now
  /\ cmvCalls' = x.cmvCalls
  /\ threw' = x.threw
  /\ tracked' = x.tracked
  /\ disposed' = x.disposed
  /\ emitted' = x.emitted
  /\ issued' = x.issued
  /\ UNCHANGED <<visTimeout, stopAfter, apiLeadMs>>
  /\ UNCHANGED squissVars
  /\ UNCHANGED sendVars
  /\ UNCHANGED urlVars

\* A TypeError: the rest of the handler does not run.
throw(x) == [x EXCEPT !.threw = TRUE]

\* setTimeout(..., node.timerOn - Date.now()): a delay that is not positive
\* fires at once.
headChanged(x) ==
  IF x.head = 0 THEN [x EXCEPT !.timer = 0]
  ELSE [x EXCEPT !.timer = x.head,
                 !.timerAt = Max(x.nodes[x.head].timerOn, x.now)]

addNode(x, n) ==
  IF x.threw THEN x
  ELSE LET x1 == [x EXCEPT !.index = @ \cup {n}]
       IN IF x1.head = 0
          THEN headChanged([x1 EXCEPT !.head = n, !.tail = n])
          ELSE IF x1.tail = 0 THEN throw(x1)
          ELSE LET x2 == [x1 EXCEPT !.nodes[x1.tail].next = n]
               IN [x2 EXCEPT !.nodes[n].prev = x1.tail, !.tail = n]

deleteNode(x, n) ==
  IF x.threw THEN x
  ELSE LET x1 == [x EXCEPT !.index = @ \ {n}]
           nx == x1.nodes[n].next
           pv == x1.nodes[n].prev
       IN IF x1.head = n
          THEN headChanged(
                 IF nx # 0
                 THEN [x1 EXCEPT !.head = nx, !.nodes[nx].prev = 0]
                 ELSE [x1 EXCEPT !.head = 0])
          ELSE IF x1.tail = n
          THEN IF pv = 0 THEN throw([x1 EXCEPT !.tail = 0])
               ELSE [x1 EXCEPT !.tail = pv, !.nodes[pv].next = 0]
          ELSE IF pv = 0 THEN throw(x1)
          ELSE LET x2 == [x1 EXCEPT !.nodes[pv].next = nx]
               IN IF x2.nodes[n].next = 0 THEN throw(x2)
                  ELSE [x2 EXCEPT !.nodes[x2.nodes[n].next].prev =
                                     x2.nodes[n].prev]

getNodeAge(x, n) == x.now - x.nodes[n].receivedOn + apiLeadMs

\* A _renewNode that caps the extension at the configured age limit.
renewNodeWithinLimit(x, n) ==
  LET extendByMs   == Min(visTimeout, stopAfter - getNodeAge(x, n))
      extendBySecs == extendByMs \div MsPerSec
      x1 == call([x EXCEPT !.cmvCalls = Append(@, n)],
                 "changeMessageVisibility", <<n, extendBySecs>>)
      x2 == deleteNode(x1, n)
  IN IF x2.threw THEN x2
     ELSE addNode([x2 EXCEPT !.nodes[n].timerOn =
                               x.now + extendBySecs * MsPerSec], n)

renewNode(x, n) ==
  LET extendByMs   == Min(visTimeout, MAX_MESSAGE_AGE_MS - getNodeAge(x, n))
      extendBySecs == extendByMs \div MsPerSec
      x1 == call([x EXCEPT !.cmvCalls = Append(@, n)],
                 "changeMessageVisibility", <<n, extendBySecs>>)
      x2 == deleteNode(x1, n)
  IN IF x2.threw THEN x2
     ELSE addNode([x2 EXCEPT !.nodes[n].timerOn =
                                x.now + extendBySecs * MsPerSec], n)

extAddMessage(x, m) ==
  addNode([x EXCEPT !.tracked = @ \cup {m},
                    !.nodes[m] = [receivedOn |-> x.now,
                                  timerOn |-> x.now + visTimeout - apiLeadMs,
                                  next |-> 0, prev |-> 0]], m)

\* A deleteMessage that does not look the message up in the index.
extDeleteMessageUnchecked(x, m) ==
  deleteNode([x EXCEPT !.disposed = @ \cup {m}], m)

extDeleteMessage(x, m) ==
  LET x1 == [x EXCEPT !.disposed = @ \cup {m}]
  IN IF m \in x1.index THEN deleteNode(x1, m) ELSE x1

\* The callback of the timer armed by _headChanged for node x.timer.
timerFired(x) ==
  LET n  == x.timer
      x0 == [x EXCEPT !.timer = 0]
  IN IF getNodeAge(x0, n) >= stopAfter THEN deleteNode(x0, n)
     ELSE renewNode(x0, n)

\* The handlers _renewNode chains on changeMessageVisibility's promise.
renewThen(x, i) ==
  emit([x EXCEPT !.cmvCalls = RemoveAt(@, i)], "timeoutExtended",
       <<x.cmvCalls[i]>>)

\* A catch handler that retires the node whatever the error.
renewCatchRetire(x, i, gone) ==
  LET n  == x.cmvCalls[i]
      x0 == [x EXCEPT !.cmvCalls = RemoveAt(@, i)]
      x1 == deleteNode(x0, n)
  IN IF x1.threw THEN x1
     ELSE emit(x1, IF gone THEN "autoExtendFail" ELSE "error", IF gone THEN <<n>> ELSE <<>>)

renewCatch(x, i, gone) ==
  LET n  == x.cmvCalls[i]
      x0 == [x EXCEPT !.cmvCalls = RemoveAt(@, i)]
  IN IF gone
     THEN LET x1 == deleteNode(x0, n)
          IN IF x1.threw THEN x1 ELSE emit(x1, "autoExtendFail", <<n>>)
     ELSE emit(x0, "error", <<>>)

ExtenderConstructed(visibilityTimeoutSecs, noExtensionsAfterSecs, advancedCallMs) ==
  /\ visTimeout = visibilityTimeoutSecs * MsPerSec
  /\ stopAfter = Min(noExtensionsAfterSecs * MsPerSec, MAX_MESSAGE_AGE_MS)
  /\ apiLeadMs = Min(advancedCallMs, visTimeout)
  /\ nodes = [m \in XMsgs |-> NoNode]
  /\ head = 0
  /\ tail = 0
  /\ index = {}
  /\ timer = 0
  /\ timerAt = 0
  /\ now = 0
  /\ cmvCalls = <<>>
  /\ threw = FALSE
  /\ tracked = {}
  /\ disposed = {}

\* ------------------------------------------------------------ sendMessages
\* A string is the sequence of its characters.
Digits == <<"0", "1", "2", "3", "4", "5", "6", "7", "8", "9">>

\* Number.prototype.toString() of a non-negative integer.
RECURSIVE toString(_)
toString(n) ==
  IF n < 10 THEN <<Digits[n + 1]>>
  ELSE Append(toString(n \div 10), Digits[(n % 10) + 1])

SCur ==
  [sendMsgs |-> sendMsgs, sendCalls |-> sendCalls, sendDone |-> sendDone,
   sendResult |-> sendResult, emitted |-> <<>>, issued |-> <<>>]

SApply(x) ==
  /\ sendMsgs' = x.sendMsgs
  /\ sendCalls' = x.sendCalls
  /\ sendDone' = x.sendDone
  /\ sendResult' = x.sendResult
  /\ emitted' = x.emitted
  /\ issued' = x.issued
  /\ UNCHANGED squissVars
  /\ UNCHANGED extVars
  /\ UNCHANGED urlVars

\* The promise sendMessages returns.
Promise(state, successful, failed, error) ==
  [state |-> state, Successful |-> successful, Failed |-> failed,
   error |-> error]

\* The for loop of sendMessages; i is its 0-based index.
RECURSIVE pushBatches(_, _, _)
pushBatches(msgs, i, batches) ==
  IF i >= Len(msgs) THEN batches
  ELSE LET b1 == IF i % AWS_MAX_SEND_BATCH = 0
                 THEN Append(batches, <<>>)
                 ELSE batches
       IN pushBatches(msgs, i + 1,
                      [b1 EXCEPT ![Len(b1)] = Append(@, msgs[i + 1])])

\* A _sendMessageBatch that numbers the entries of every batch from 0.
sendMessageBatchFromZero(messages, startIndex) ==
  [idx \in 1..Len(messages) |->
     [Id |-> toString(idx - 1), MessageBody |-> messages[idx]]]

\* The Entries of the sendMessageBatch call of one batch.
sendMessageBatch(messages, startIndex) ==
  [idx \in 1..Len(messages) |->
     [Id |-> toString(startIndex + idx - 1), MessageBody |-> messages[idx]]]

\* SQSStub.sendMessageBatch: an entry whose body is 'FAIL' is reported in
\* Failed, every other entry in Successful.
IsFailEntry(entry) == entry.MessageBody = "FAIL"

IsGoodEntry(entry) == entry.MessageBody # "FAIL"

IdsOf(entries) == [i \in 1..Len(entries) |-> entries[i].Id]

sqsSendBatch(entries) ==
  [Successful |-> IdsOf(SelectSeq(entries, IsGoodEntry)),
   Failed |-> IdsOf(SelectSeq(entries, IsFailEntry))]

\* An array of values that holds the results in the order they arrived.
promiseAllValuesByArrival(done) == [k \in 1..Len(done) |-> done[k].res]

\* Promise.all: the value of the promise at index k, whenever it arrived.
promiseAllValues(done) ==
  [k \in 1..Len(done) |->
     LET at == CHOOSE j \in 1..Len(done) : done[j].idx = k
     IN done[at].res]

\* results.forEach(...) of sendMessages' then handler.
RECURSIVE mergeFrom(_, _, _)
mergeFrom(results, i, merged) ==
  IF i > Len(results) THEN merged
  ELSE mergeFrom(results, i + 1,
                 [Successful |-> merged.Successful \o results[i].Successful,
                  Failed |-> merged.Failed \o results[i].Failed])

merge(results) == mergeFrom(results, 1, [Successful |-> <<>>, Failed |-> <<>>])

\* Promise.all(...).then(merge): settles when the last value has arrived.
settle(x) ==
  IF x.sendResult.state = "pending" /\ Len(x.sendDone) = Len(x.sendCalls)
  THEN LET merged == merge(promiseAllValues(x.sendDone))
       IN [x EXCEPT !.sendResult =
                       Promise("resolved", merged.Successful, merged.Failed, 0)]
  ELSE x

sendMessages(x, msgs) ==
  LET batches == pushBatches(msgs, 0, <<>>)
      calls == [k \in 1..Len(batches) |->
                  sendMessageBatch(batches[k], (k - 1) * AWS_MAX_SEND_BATCH)]
  IN settle([x EXCEPT !.sendMsgs = msgs,
                      !.sendCalls = calls,
                      !.sendResult = Promise("pending", <<>>, <<>>, 0),
                      !.issued = [k \in 1..Len(calls) |->
                                    Sig("sendMessageBatch", calls[k])]])

Arrival(k, ok, res) == [idx |-> k, ok |-> ok, res |-> res]

NoResult == [Successful |-> <<>>, Failed |-> <<>>]

\* The service answers the call of batch k.
chunkThen(x, k) ==
  settle([x EXCEPT !.sendDone =
                      Append(@, Arrival(k, TRUE, sqsSendBatch(x.sendCalls[k])))])

\* A rejection handler that counts a failed call as an empty answer.
chunkCatchSettled(x, k) ==
  settle([x EXCEPT !.sendDone = Append(@, Arrival(k, FALSE, NoResult))])

\* The call of batch k fails: Promise.all rejects with the first failure.
chunkCatch(x, k) ==
  LET x1 == [x EXCEPT !.sendDone = Append(@, Arrival(k, FALSE, NoResult))]
  IN IF x1.sendResult.state = "pending"
     THEN [x1 EXCEPT !.sendResult = Promise("rejected", <<>>, <<>>, k)]
     ELSE x1

SendIdle ==
  /\ sendMsgs = <<>>
  /\ sendCalls = <<>>
  /\ sendDone = <<>>
  /\ sendResult = Promise("idle", <<>>, <<>>, 0)

\* ------------------------------------------------------------- getQueueUrl
\* The values of this._queueUrl: undefined, the URL given to the constructor,
\* and the URL the service answered.
NoUrl == "undefined"
OptsUrl == "opts.queueUrl"
SqsUrl == "data.QueueUrl"

UCur == [queueUrl |-> queueUrl, getUrl |-> getUrl, emitted |-> <<>>, issued |-> <<>>]

UApply(u) ==
  /\ queueUrl' = u.queueUrl
  /\ getUrl' = u.getUrl
  /\ emitted' = u.emitted
  /\ issued' = u.issued
  /\ UNCHANGED squissVars
  /\ UNCHANGED extVars
  /\ UNCHANGED sendVars

\* The promise one getQueueUrl() returned, and whether that invocation placed
\* a getQueueUrl call with the service.
UrlPromise(state, value, called) == [state |-> state, value |-> value, called |-> called]

\* getQueueUrl() that asks the service on every invocation.
getQueueUrlUncached(u) ==
  call([u EXCEPT !.getUrl = Append(@, UrlPromise("pending", NoUrl, TRUE))], "getQueueUrl", <<>>)

\* getQueueUrl(): the cached URL if there is one, else a call to the service.
getQueueUrl(u) ==
  IF u.queueUrl # NoUrl
  THEN [u EXCEPT !.getUrl = Append(@, UrlPromise("resolved", u.queueUrl, FALSE))]
  ELSE call([u EXCEPT !.getUrl = Append(@, UrlPromise("pending", NoUrl, TRUE))], "getQueueUrl", <<>>)

\* .then(data => { this._queueUrl = data.QueueUrl; return this._queueUrl })
getQueueUrlThen(u, i) ==
  [u EXCEPT !.queueUrl = SqsUrl, !.getUrl[i] = UrlPromise("resolved", SqsUrl, TRUE)]

\* The service call rejects: the promise rejects and nothing is cached.
getQueueUrlCatch(u, i) ==
  [u EXCEPT !.getUrl[i] = UrlPromise("rejected", NoUrl, TRUE)]

\* this._queueUrl = opts.queueUrl
UrlConstructed(urls) ==
  /\ queueUrl \in urls
  /\ getUrl = <<>>

\* -------------------------------------------------------------------- Init
PollIntervals == {0, 1}

SquissConstructed(caps, batches, delBatches, intervals, depths) ==
  /\ maxInFlight \in caps
  /\ \E cfg \in batches :
       receiveBatchSize = clampReceiveBatchSize(cfg, maxInFlight)
  /\ \E cfg \in delBatches : deleteBatchSize = clampDeleteBatchSize(cfg)
  /\ activePollIntervalMs \in intervals
  /\ idlePollIntervalMs \in intervals
  /\ running = FALSE
  /\ paused = FALSE
  /\ inFlight = 0
  /\ activeReq = "none"
  /\ delQueue = <<>>
  /\ delTimer = FALSE
  /\ delTimerArmedAt = 0
  /\ pendingStart = 0
  /\ pollTimers = 0
  /\ delCalls = <<>>
  /\ \E d \in depths : sqsMsgs = [i \in 1..d |-> i]
  /\ delivered = {}
  /\ handled = {}
  /\ emitted = <<>>
  /\ issued = <<>>
  /\ gotLog = <<>>
  /\ disposeCalls = [m \in Msgs |-> 0]
  /\ repeated = FALSE
  /\ directCalls = 0
  /\ capDelivered = 0
  /\ capInFlight = 0

\* A Squiss without autoExtendTimeout: its extender stays as constructed.
InitWith(caps, batches, delBatches, intervals, depths) ==
  /\ SquissConstructed(caps, batches, delBatches, intervals, depths)
  /\ ExtenderConstructed(DefaultVisibilityTimeoutSecs,
                         MAX_MESSAGE_AGE_MS \div MsPerSec,
                         DefaultAdvancedCallMs)
  /\ SendIdle
  /\ UrlConstructed({OptsUrl})

\* ----------------------------------------------------------------- actions
Start == /\ pendingStart < MaxPending
         /\ Apply(start(Cur))

StopWith(soft) == Apply(stop(Cur, soft))

Stop == \E soft \in BOOLEAN : StopWith(soft)

StartPollerResolved ==
  /\ pendingStart > 0
  /\ Apply(getBatch([Cur EXCEPT !.pendingStart = @ - 1]))

PollTimerFired ==
  /\ pollTimers > 0
  /\ Apply(getBatch([Cur EXCEPT !.pollTimers = @ - 1]))

CanDelete == Len(delCalls) < MaxDelCalls

ReceiveResolvedWith(reactions) ==
  /\ activeReq = "open"
  /\ pollTimers < MaxTimers
  /\ pendingStart < MaxPending
  /\ CanDelete
  /\ \E r \in reactions :
       Apply(receiveThen(Cur, [i \in 1..receiveBatchSize |-> r]))

\* The listener keeps every message of the batch before it returns, or none.
ReceiveResolved == ReceiveResolvedWith({"none", "keep"})

\* The listener returns without disposing of the message.
ReceiveResolvedQuiet == ReceiveResolvedWith({"none"})

ReceiveFailed ==
  /\ activeReq = "open"
  /\ pollTimers < MaxTimers
  /\ Apply(receiveCatch(Cur, FALSE))

ReceiveAborted ==
  /\ activeReq = "aborted"
  /\ Apply(receiveCatch(Cur, TRUE))

MessageDel ==
  \E m \in delivered :
    /\ CanDelete
    /\ pendingStart < MaxPending
    /\ Apply(msgDel(Cur, m))

MessageKeep ==
  \E m \in delivered :
    /\ pendingStart < MaxPending
    /\ Apply(msgKeep(Cur, m))

MessageRelease ==
  \E m \in delivered :
    /\ pendingStart < MaxPending
    /\ Apply(msgRelease(Cur, m))

\* The application disposes of each Message once, the oldest first:
\* handledMessage() takes no argument, so which Message is kept makes no
\* difference to the poller.
MessageKeepOnce ==
  \E m \in delivered \ handled :
    /\ \A o \in delivered \ handled : m <= o
    /\ pendingStart < MaxPending
    /\ Apply(msgKeep(Cur, m))

DirectHandled ==
  /\ directCalls < MaxDirect
  /\ pendingStart < MaxPending
  /\ Apply(handledMessage([Cur EXCEPT !.directCalls = @ + 1]))

\* deleteMessage() and releaseMessage() only read the identifiers of the
\* object they are given: the application passes message 1, delivered or not.
DirectDelete ==
  \E m \in {1} :
    /\ directCalls < MaxDirect
    /\ pendingStart < MaxPending
    /\ CanDelete
    /\ Apply(deleteMessage([Cur EXCEPT !.directCalls = @ + 1], m))

DirectRelease ==
  \E m \in {1} :
    /\ directCalls < MaxDirect
    /\ pendingStart < MaxPending
    /\ Apply(releaseMessage([Cur EXCEPT !.directCalls = @ + 1], m))

\* del() and keep() on a delivered Message while the application's `drained'
\* listener calls keep() on one of the delivered Messages, or on none.
MessageDelListened ==
  \E m \in delivered : \E l \in delivered \cup {0} :
    /\ CanDelete
    /\ pendingStart < MaxPending
    /\ Apply(msgDelListened(Cur, m, l))

MessageKeepListened ==
  \E m \in delivered : \E l \in delivered \cup {0} :
    /\ pendingStart < MaxPending
    /\ Apply(msgKeepListened(Cur, m, l))

DelTimerFired ==
  /\ delTimer
  /\ CanDelete
  /\ Apply(delTimerFired(Cur))

DeleteResolved ==
  \E i \in 1..Len(delCalls) :
    \E failed \in SUBSET (1..Len(delCalls[i])) : Apply(deleteThen(Cur, i, failed))

DeleteFailed ==
  \E i \in 1..Len(delCalls) : Apply(deleteCatch(Cur, i))

\* The application hands a delivered message to the extender (`message').
AddMessage ==
  \E m \in XMsgs \ tracked :
    /\ ~threw
    /\ XApply(extAddMessage(XCur, m))

\* The application disposes of a tracked message (`handled'), once.
DeleteMessage ==
  \E m \in tracked \ disposed :
    /\ ~threw
    /\ XApply(extDeleteMessage(XCur, m))

\* The application asks the extender to forget a message it does not track:
\* one never added, one already removed, or one the extender has retired.
DeleteUntracked ==
  \E m \in XMsgs \ index :
    /\ ~threw
    /\ XApply(extDeleteMessage(XCur, m))

\* Half a second passes; a timer that is due fires before the clock moves on.
TickMs == MsPerSec \div 2

Tick ==
  /\ ~threw
  /\ now < ExtTicks * TickMs
  /\ ~(timer # 0 /\ timerAt <= now)
  /\ XApply([XCur EXCEPT !.now = @ + TickMs])

TimerFired ==
  /\ ~threw
  /\ timer # 0
  /\ timerAt <= now
  /\ Len(cmvCalls) < ExtCalls
  /\ XApply(timerFired(XCur))

RenewResolved ==
  \E i \in 1..Len(cmvCalls) :
    /\ ~threw
    /\ XApply(renewThen(XCur, i))

\* The service answers that the message does not exist or is not available.
RenewGone ==
  \E i \in 1..Len(cmvCalls) :
    /\ ~threw
    /\ XApply(renewCatch(XCur, i, TRUE))

RenewFailed ==
  \E i \in 1..Len(cmvCalls) :
    /\ ~threw
    /\ XApply(renewCatch(XCur, i, FALSE))

\* The positions at which the application's sequence may hold a message the
\* service will refuse: the ends of the sequence and of its first batch.
FailSpots(n) == {1, AWS_MAX_SEND_BATCH, AWS_MAX_SEND_BATCH + 1, n} \cap (1..n)

Bodies == <<"a", "b", "c">>

SendInput(n, fails) ==
  [i \in 1..n |-> IF i \in fails THEN "FAIL" ELSE Bodies[(i % 3) + 1]]

SendMessages ==
  /\ sendResult.state = "idle"
  /\ \E n \in 0..MaxSend :
       \E fails \in SUBSET FailSpots(n) :
         SApply(sendMessages(SCur, SendInput(n, fails)))

\* The calls that have not completed.
Outstanding ==
  {k \in 1..Len(sendCalls) : \A j \in 1..Len(sendDone) : sendDone[j].idx # k}

ChunkResolved == \E k \in Outstanding : SApply(chunkThen(SCur, k))

ChunkFailed == \E k \in Outstanding : SApply(chunkCatch(SCur, k))

\* ---------------------------------------------------------- specifications
\* The poll loop: every configuration of the cap, the batch size and the poll
\* intervals; the application disposes of messages with Message.keep().
\* One more invocation of getQueueUrl().
GetQueueUrl ==
  /\ Len(getUrl) < MaxUrlCalls
  /\ UApply(getQueueUrl(UCur))

UrlOutstanding == {i \in 1..Len(getUrl) : getUrl[i].state = "pending"}

GetQueueUrlResolved ==
  \E i \in UrlOutstanding : UApply(getQueueUrlThen(UCur, i))

GetQueueUrlFailed ==
  \E i \in UrlOutstanding : UApply(getQueueUrlCatch(UCur, i))

Init == InitWith(0..MaxCap, 1..MaxBatch, {AwsMaxDeleteBatch}, PollIntervals,
                 0..MaxDepth)

Next ==
  \/ Start
  \/ Stop
  \/ StartPollerResolved
  \/ PollTimerFired
  \/ ReceiveResolved
  \/ ReceiveFailed
  \/ ReceiveAborted
  \/ MessageKeepOnce

Spec == Init /\ [][Next]_vars

\* Disposal: every disposal method of Message and of Squiss, the delete queue
\* and its timer, under a poller that is started once and whose receives
\* succeed.
InitDispose == InitWith({0, DispDepth}, {DispDepth}, 1..MaxDelBatch, {0},
                        {DispDepth})

NextDispose ==
  \/ Start
  \/ StartPollerResolved
  \/ ReceiveResolvedQuiet
  \/ MessageDel
  \/ MessageKeep
  \/ MessageRelease
  \/ DirectHandled
  \/ DirectDelete
  \/ DirectRelease
  \/ DelTimerFired
  \/ DeleteResolved
  \/ DeleteFailed

SpecDispose == InitDispose /\ [][NextDispose]_vars

\* Disposal through the Message methods with a `drained' listener that
\* disposes of a Message in turn.
InitListened == InitWith({0, DispDepth}, 1..DispDepth, 1..MaxDelBatch, {0},
                         {DispDepth})

NextListened ==
  \/ Start
  \/ StartPollerResolved
  \/ ReceiveResolvedQuiet
  \/ MessageDelListened
  \/ MessageKeepListened
  \/ DelTimerFired
  \/ DeleteResolved

SpecListened == InitListened /\ [][NextListened]_vars

\* Receive failures: a poller whose timers fire, whose continuations run and
\* whose service eventually answers when receives are issued again and again.
InitRetry == InitWith({0, 1}, {1}, {AwsMaxDeleteBatch}, {0}, 1..RetryDepth)

SpecRetry ==
  /\ InitRetry
  /\ [][Next]_vars
  /\ WF_vars(PollTimerFired)
  /\ WF_vars(StartPollerResolved)
  /\ SF_vars(ReceiveResolved)

\* The TimeoutExtender on its own: the application adds each message once and
\* disposes of it at most once; an uncaught TypeError ends the run.
InitExt ==
  /\ SquissConstructed({0}, {1}, {AwsMaxDeleteBatch}, {0}, {0})
  /\ \E vis \in 1..ExtVisSecs :
       \E noExt \in {ExtStopSecs, MAX_MESSAGE_AGE_MS \div MsPerSec} :
         \E adv \in {0, TickMs} : ExtenderConstructed(vis, noExt, adv)
  /\ SendIdle
  /\ UrlConstructed({OptsUrl})

NextExt ==
  \/ AddMessage
  \/ DeleteMessage
  \/ Tick
  \/ TimerFired
  \/ RenewResolved
  \/ RenewGone
  \/ RenewFailed

SpecExt == InitExt /\ [][NextExt]_vars

\* The extender with an application that also calls deleteMessage for
\* messages the extender does not track.
InitExtDelete ==
  /\ SquissConstructed({0}, {1}, {AwsMaxDeleteBatch}, {0}, {0})
  /\ \E adv \in {0, TickMs} : ExtenderConstructed(1, ExtStopSecs, adv)
  /\ SendIdle
  /\ UrlConstructed({OptsUrl})

NextExtDelete ==
  \/ Cardinality(tracked) < DelMsgs /\ AddMessage
  \/ DeleteMessage
  \/ DeleteUntracked
  \/ now < DelTicks * TickMs /\ Tick
  \/ Len(cmvCalls) < DelCalls /\ TimerFired
  \/ RenewResolved

SpecExtDelete == InitExtDelete /\ [][NextExtDelete]_vars

\* The extender with one message at a time whose renew calls succeed, fail
\* because the message is gone, or fail for another reason.
NextExtFail ==
  \/ Cardinality(tracked) < DelMsgs /\ AddMessage
  \/ DeleteMessage
  \/ now < DelTicks * TickMs /\ Tick
  \/ Len(cmvCalls) < DelCalls /\ TimerFired
  \/ RenewResolved
  \/ RenewGone
  \/ RenewFailed

SpecExtFail == InitExtDelete /\ [][NextExtFail]_vars

\* The extender configured with an age limit one second above a visibility
\* timeout of two seconds or more, so that the limit falls inside a lease.
InitExtLife ==
  /\ SquissConstructed({0}, {1}, {AwsMaxDeleteBatch}, {0}, {0})
  /\ \E vis \in 2..LifeVisSecs :
       \E adv \in {0, TickMs} : ExtenderConstructed(vis, vis + 1, adv)
  /\ SendIdle
  /\ UrlConstructed({OptsUrl})

SpecExtLife == InitExtLife /\ [][NextExtDelete]_vars

\* The delete queue: the poller is started and stopped at will and Messages
\* are disposed of with del().
InitFlush == InitWith({0}, {1}, 1..FlushDelBatch, {0}, {FlushDepth})

NextFlush ==
  \/ Start
  \/ Stop
  \/ StartPollerResolved
  \/ ReceiveResolvedQuiet
  \/ ReceiveAborted
  \/ MessageDel
  \/ DelTimerFired
  \/ DeleteResolved
  \/ DeleteFailed

SpecFlush == InitFlush /\ [][NextFlush]_vars

\* The delete queue under a fair scheduler: the delete timer fires when it is
\* due.  Deletes are immediate (deleteBatchSize = 1) or wait for the timer.
InitFlushFair == InitWith({0}, {1}, {1, FlushDelBatch}, {0}, {FlushDepth})

SpecFlushFair ==
  /\ InitFlushFair
  /\ [][NextFlush]_vars
  /\ WF_vars(DelTimerFired)

\* sendMessages: one call with a sequence of 0..MaxSend messages, whose batch
\* calls complete in any order and succeed or fail.
InitSend == InitWith({0}, {1}, {AwsMaxDeleteBatch}, {0}, {0})

NextSend ==
  \/ SendMessages
  \/ ChunkResolved
  \/ ChunkFailed

SpecSend == InitSend /\ [][NextSend]_vars

\* getQueueUrl: up to MaxUrlCalls invocations by start(), the chunks of a
\* sendMessages, a delete flush or the application, on an instance built with
\* a queue name or with a queue URL; the service calls complete in any order.
InitUrl ==
  /\ SquissConstructed({0}, {1}, {AwsMaxDeleteBatch}, {0}, {0})
  /\ ExtenderConstructed(DefaultVisibilityTimeoutSecs,
                         MAX_MESSAGE_AGE_MS \div MsPerSec,
                         DefaultAdvancedCallMs)
  /\ SendIdle
  /\ UrlConstructed({NoUrl, OptsUrl})

NextUrl ==
  \/ GetQueueUrl
  \/ GetQueueUrlResolved
  \/ GetQueueUrlFailed

SpecUrl == InitUrl /\ [][NextUrl]_vars

\* ------------------------------------------------------------- observation
HasSig(seq, name) == \E i \in 1..Len(seq) : seq[i].name = name

CountSig(seq, name) == Cardinality({i \in 1..Len(seq) : seq[i].name = name})

IsMessageSig(e) == e.name = "message"

\* The ids of the `message' signals of seq, in order.
MessageIds(seq) ==
  LET sel == SelectSeq(seq, IsMessageSig)
  IN [i \in 1..Len(sel) |-> sel[i].arg[1]]

\* The depth of the queue before the first receive.
Depth0 == Cardinality(delivered) + Len(sqsMsgs)

Quiescent == pendingStart = 0 /\ pollTimers = 0 /\ activeReq = "none"

\* ------------------------------------------------------------------ claims
\* C1: with maxInFlight = M > 0 a receive is issued only while
\* inFlight <= M - receiveBatchSize, and inFlight <= M in every reachable
\* state, whatever the interleaving of start(), stop(), receive completions,
\* timer fires and disposals.
C1_CapRespected ==
  maxInFlight > 0 =>
    /\ inFlight <= maxInFlight
    /\ HasSig(issued, "receiveMessage") =>
         inFlight <= maxInFlight - receiveBatchSize

\* C2: once a tracked message has been disposed of (DeleteMessage on the
\* extender), no changeMessageVisibility call is issued for it again.
C2_NoRenewalAfterDisposal ==
  ~threw =>
    \A i \in 1..Len(issued) :
      issued[i].name = "changeMessageVisibility" =>
        issued[i].arg[1] \notin disposed

\* C3: of any sequence of del(), keep() and release() on one Message only the
\* first takes effect: the Message calls one disposal method of Squiss, once,
\* and the in-flight count goes down by one per disposed Message.
C3_FirstDisposalOnly ==
  /\ \A m \in Msgs : disposeCalls[m] = IF m \in handled THEN 1 ELSE 0
  /\ handled \subseteq delivered
  /\ inFlight = Cardinality(delivered) - Cardinality(handled) - directCalls

\* A disposal method was called again on the one Message disposed of so far.
C3_Witness ==
  /\ repeated
  /\ Cardinality(handled) = 1
  /\ \A m \in handled : disposeCalls[m] = 1
  /\ directCalls = 0
  /\ inFlight = Cardinality(delivered) - 1

\* C4: inFlight >= 0 in every reachable state, whether disposals go through
\* the Message methods or through the public deleteMessage(),
\* handledMessage() and releaseMessage() of Squiss.
C4_NonNegative == inFlight >= 0

C6_AbortedCompletion ==
  [][ /\ (activeReq = "open" /\ StopWith(FALSE)) => activeReq' = "aborted"
      /\ (activeReq = "aborted" /\ activeReq' # "aborted") =>
           /\ activeReq' = "none"
           /\ emitted' = <<Sig("aborted", <<>>)>>
           /\ issued' = <<>>
           /\ delivered' = delivered
           /\ inFlight' = inFlight
           /\ sqsMsgs' = sqsMsgs
           /\ pollTimers' = pollTimers
           /\ pendingStart' = pendingStart ]_vars

C6_Witness ==
  /\ emitted = <<Sig("aborted", <<>>)>>
  /\ ~running
  /\ activeReq = "none"
  /\ pollTimers = 0
  /\ pendingStart = 0

\* C7: a receive failure that is not a cancellation emits exactly one `error'
\* and arms the retry timer; when a poll timer fires on a running poller
\* with no receive outstanding a receive is issued; so after a failure a
\* receive is issued again unless the poller is stopped, and a message still
\* in the queue of an uncapped poller is delivered unless the poller is
\* stopped.
C7_FailureRetries ==
  /\ [][ /\ ReceiveFailed =>
              /\ emitted' = <<Sig("error", <<>>)>>
              /\ pollTimers' = pollTimers + 1
              /\ activeReq' = "none"
              /\ running' = running
              /\ delivered' = delivered
              /\ sqsMsgs' = sqsMsgs
         /\ (PollTimerFired /\ running /\ activeReq = "none") =>
              /\ activeReq' = "open"
              /\ HasSig(issued', "receiveMessage") ]_vars
  /\ (HasSig(emitted, "error") /\ running) ~> (~running \/ activeReq = "open")
  /\ (HasSig(emitted, "error") /\ running /\ sqsMsgs # <<>>
        /\ maxInFlight = 0)
       ~> (~running \/ HasSig(emitted, "message"))

\* A receive has just failed on a running poller with a message in the queue.
C7_Witness ==
  /\ HasSig(emitted, "error")
  /\ running
  /\ pollTimers = 1
  /\ activeReq = "none"
  /\ sqsMsgs # <<>>

\* C8: with maxInFlight = 0, a queue of depth D and batch size b, the
\* `gotMessages' signals carry the counts b, ..., b, remainder, there are
\* ceil(D / b) of them when `queueEmpty' is emitted, every message is
\* delivered, and the `message' signals of a batch follow its `gotMessages'
\* in service order.
C8_BatchSequence ==
  maxInFlight = 0 =>
    /\ \A i \in 1..Len(gotLog) :
         gotLog[i] = Min(receiveBatchSize, Depth0 - (i - 1) * receiveBatchSize)
    /\ delivered = 1..Cardinality(delivered)
    /\ HasSig(emitted, "gotMessages") =>
         /\ emitted[1] = Sig("gotMessages", <<gotLog[Len(gotLog)]>>)
         /\ CountSig(emitted, "gotMessages") = 1
         /\ MessageIds(emitted) =
              [i \in 1..gotLog[Len(gotLog)] |->
                 Cardinality(delivered) - gotLog[Len(gotLog)] + i]
    /\ HasSig(emitted, "queueEmpty") =>
         /\ emitted = <<Sig("queueEmpty", <<>>)>>
         /\ sqsMsgs = <<>>
         /\ Cardinality(delivered) = Depth0
         /\ Len(gotLog) * receiveBatchSize >= Depth0
         /\ (Len(gotLog) - 1) * receiveBatchSize < Depth0 \/ Depth0 = 0

C8_Witness ==
  /\ maxInFlight = 0
  /\ receiveBatchSize = 2
  /\ Depth0 = 3
  /\ gotLog = <<2, 1>>
  /\ emitted = <<Sig("queueEmpty", <<>>)>>

\* C9 (as stated): with M > 0 and more than M messages available, exactly M
\* messages are delivered before the `maxInFlight' signal.
C9_ExactlyCap ==
  (capDelivered # 0 /\ capInFlight = capDelivered /\ Depth0 > maxInFlight)
    => capDelivered = maxInFlight

\* C9 (amended): with M > 0, more than M messages available and none of them
\* disposed of, receiveBatchSize * floor(M / receiveBatchSize) messages are
\* delivered before the first `maxInFlight' signal.
C9_WholeBatchesBelowCap ==
  (capDelivered # 0 /\ capInFlight = capDelivered /\ Depth0 > maxInFlight)
    => capDelivered = receiveBatchSize * (maxInFlight \div receiveBatchSize)

C9_Witness ==
  /\ maxInFlight = 3
  /\ receiveBatchSize = 2
  /\ Depth0 > maxInFlight
  /\ capDelivered = 2
  /\ capInFlight = 2
  /\ HasSig(emitted, "maxInFlight")

\* C10 (as stated): after the `maxInFlight' signal, disposing of K messages,
\* 1 <= K <= receiveBatchSize, resumes polling and exactly K more messages
\* are delivered (the queue holding at least receiveBatchSize more).
C10_ExactlyKMore ==
  (/\ capDelivered # 0
   /\ capInFlight = capDelivered
   /\ Depth0 >= capDelivered + receiveBatchSize
   /\ running
   /\ Quiescent
   /\ Cardinality(handled) \in 1..receiveBatchSize)
    => Cardinality(delivered) = capDelivered + Cardinality(handled)

\* C10 (amended): a disposal resumes a paused, running poller exactly when it
\* brings inFlight down to maxInFlight - receiveBatchSize; a disposal that
\* leaves inFlight above that leaves the poller paused; and a completed
\* receive delivers min(receiveBatchSize, queue depth) messages, however many
\* were disposed of.
C10_ResumeAtThreshold ==
  [][ /\ (paused /\ running /\ inFlight' < inFlight) =>
           IF inFlight' <= maxInFlight - receiveBatchSize
           THEN ~paused' /\ pendingStart' = pendingStart + 1
           ELSE paused' /\ pendingStart' = pendingStart /\ issued' = <<>>
      /\ (paused /\ ~paused' /\ running') =>
           /\ inFlight' = inFlight - 1
           /\ inFlight' <= maxInFlight - receiveBatchSize
      /\ (activeReq = "open" /\ HasSig(emitted', "gotMessages")) =>
           Cardinality(delivered') - Cardinality(delivered)
             = Min(receiveBatchSize, Len(sqsMsgs))
      /\ (activeReq = "open" /\ HasSig(emitted', "queueEmpty")) =>
           delivered' = delivered /\ sqsMsgs = <<>> ]_vars

\* Two disposals after the signal resumed the poller, which delivered the one
\* message the queue still held.
C10_Witness ==
  /\ capDelivered # 0
  /\ capInFlight = capDelivered
  /\ receiveBatchSize = 2
  /\ Cardinality(handled) = 2
  /\ Cardinality(delivered) = capDelivered + 1
  /\ HasSig(emitted, "gotMessages")

\* The disposals since the first `maxInFlight' signal: under Spec every
\* disposal is a Message.keep(), so the Messages disposed of before the
\* signal are the deliveries less the in-flight count recorded at the signal.
DisposedSinceCap == Cardinality(handled) - (capDelivered - capInFlight)

\* C11: after the `maxInFlight' signal no receive is issued until at least
\* receiveBatchSize in-flight messages have been disposed of since the signal.
C11_NoReceiveBeforeBatchDisposed ==
  (capDelivered # 0 /\ HasSig(issued, "receiveMessage"))
    => DisposedSinceCap >= receiveBatchSize

\* C12: with maxInFlight = 0 the `maxInFlight' signal is never emitted and the
\* poller is never paused, whatever the queue depth and however many
\* delivered messages stay undisposed.
C12_UncappedNeverPauses ==
  maxInFlight = 0 => (~paused /\ ~HasSig(emitted, "maxInFlight"))

\* An uncapped poller has issued its next receive with three or more
\* delivered messages undisposed.
C12_Witness ==
  /\ maxInFlight = 0
  /\ inFlight >= 3
  /\ handled = {}
  /\ HasSig(emitted, "message")
  /\ HasSig(issued, "receiveMessage")

\* C13 (as stated): once all N >= 1 delivered messages have been disposed of,
\* however the disposals interleave with the deliveries, inFlight is 0 and
\* one `drained' has been emitted in total: so no handler emits two.
C13_OneDrainedInTotal ==
  (delivered # {} /\ handled = delivered)
    => (inFlight = 0 /\ CountSig(emitted, "drained") <= 1)

\* C13 (amended): inFlight is the number of delivered messages not yet
\* disposed of, so it is 0 once all are disposed of; every disposal that
\* leaves inFlight at 0 emits one `drained' and nothing else emits it: the
\* total is the number of times the in-flight set was emptied.
C13_DrainedPerEmptying ==
  /\ [](inFlight = Cardinality(delivered) - Cardinality(handled))
  /\ [][ CountSig(emitted', "drained") =
           IF handled' # handled /\ inFlight' = 0
           THEN Cardinality(handled' \ handled)
           ELSE 0 ]_vars

\* The last of two or more delivered messages has just been disposed of.
C13_Witness ==
  /\ Cardinality(delivered) >= 2
  /\ handled = delivered
  /\ inFlight = 0
  /\ emitted = <<Sig("drained", <<>>)>>

\* This step is a call of Squiss.deleteMessage for message m, through
\* Message.del() or directly.
DeleteCalled(m) ==
  \/ m \in delivered \ handled /\ Apply(msgDel(Cur, m))
  \/ Apply(deleteMessage([Cur EXCEPT !.directCalls = @ + 1], m))

BatchDelete(entries) == Sig("deleteMessageBatch", entries)

InSeq(seq, m) == \E i \in 1..Len(seq) : seq[i] = m

\* The handler that has just run issued a batch-delete call carrying m.
SentNow(m) ==
  \E i \in 1..Len(issued) :
    issued[i].name = "deleteMessageBatch" /\ InSeq(issued[i].arg, m)

RECURSIVE PickSeq(_, _, _)
PickSeq(batch, failed, i) ==
  IF i > Len(batch) THEN <<>>
  ELSE (IF i \in failed THEN <<batch[i]>> ELSE <<>>)
         \o PickSeq(batch, failed, i + 1)

\* C17: the answer to a batch-delete call emits one `delError' per entry the
\* service reports as failed, carrying that entry, and no `error'; a failure
\* of the call emits one `error' and no `delError'; either way nothing is
\* put back on the delete queue and no call is issued.
C17_DeleteFailures ==
  [][ \A i \in 1..Len(delCalls) :
        /\ \A failed \in SUBSET (1..Len(delCalls[i])) :
             Apply(deleteThen(Cur, i, failed)) =>
               /\ Len(emitted') = Cardinality(failed)
               /\ \A k \in 1..Len(emitted') :
                    emitted'[k] =
                      Sig("delError", <<PickSeq(delCalls[i], failed, 1)[k]>>)
               /\ issued' = <<>>
               /\ delQueue' = delQueue
               /\ delCalls' = RemoveAt(delCalls, i)
        /\ Apply(deleteCatch(Cur, i)) =>
             /\ emitted' = <<Sig("error", <<>>)>>
             /\ issued' = <<>>
             /\ delQueue' = delQueue
             /\ delCalls' = RemoveAt(delCalls, i) ]_vars

\* The service reported both entries of a batch of two as failed.
C17_Witness ==
  /\ CountSig(emitted, "delError") = 2
  /\ Len(emitted) = 2
  /\ issued = <<>>
  /\ delCalls = <<>>
  /\ delQueue = <<>>

\* The entries of all sendMessageBatch calls, in the order of the calls.
RECURSIVE Flatten(_, _)
Flatten(seqs, i) ==
  IF i > Len(seqs) THEN <<>> ELSE seqs[i] \o Flatten(seqs, i + 1)

DigitValue(c) == CHOOSE d \in 0..9 : Digits[d + 1] = c

\* The number a string of decimal digits denotes.
RECURSIVE DecimalValue(_)
DecimalValue(str) ==
  IF Len(str) = 0 THEN 0
  ELSE 10 * DecimalValue(SubSeq(str, 1, Len(str) - 1))
         + DigitValue(str[Len(str)])

RECURSIVE IdsWhere(_, _, _)
IdsWhere(msgs, fail, i) ==
  IF i > Len(msgs) THEN <<>>
  ELSE (IF (msgs[i] = "FAIL") = fail THEN <<toString(i - 1)>> ELSE <<>>)
         \o IdsWhere(msgs, fail, i + 1)

AllAnswered ==
  /\ sendResult.state # "idle"
  /\ Len(sendDone) = Len(sendCalls)
  /\ \A j \in 1..Len(sendDone) : sendDone[j].ok

\* C19: when every call has been answered, in whatever order, sendMessages
\* resolves with the Successful and the Failed lists of the calls
\* concatenated in call order: the Ids of the accepted messages and of the
\* refused ones, each in the order of the argument, n in all; and it does
\* not resolve before.
C19_MergeInChunkOrder ==
  /\ AllAnswered =>
       /\ sendResult.state = "resolved"
       /\ sendResult.Successful = IdsWhere(sendMsgs, FALSE, 1)
       /\ sendResult.Failed = IdsWhere(sendMsgs, TRUE, 1)
       /\ Len(sendResult.Successful) + Len(sendResult.Failed) = Len(sendMsgs)
  /\ sendResult.state = "resolved" => AllAnswered

\* Three calls were answered last call first; the first and the last
\* message of the argument were refused.
C19_Witness ==
  /\ sendResult.state = "resolved"
  /\ Len(sendCalls) = 3
  /\ sendDone[1].idx = 3
  /\ sendDone[3].idx = 1
  /\ sendResult.Failed = <<<<"0">>, <<"2", "0">>>>
  /\ Len(sendResult.Successful) = 19

\* The first call to fail, in order of arrival.
FirstFailure ==
  LET at == CHOOSE j \in 1..Len(sendDone) :
              /\ ~sendDone[j].ok
              /\ \A i \in 1..(j - 1) : sendDone[i].ok
  IN sendDone[at].idx

\* C20: once a sendMessageBatch call has failed, sendMessages is rejected
\* with the failure of the first call that failed and returns no Successful
\* or Failed list, whatever the other calls answer; the rejection stands; and
\* no sendMessageBatch call is issued after the ones sendMessages issued.
C20_RejectOnChunkFailure ==
  /\ []((\E j \in 1..Len(sendDone) : ~sendDone[j].ok) =>
          sendResult = Promise("rejected", <<>>, <<>>, FirstFailure))
  /\ [][ sendResult.state # "idle" =>
           /\ sendCalls' = sendCalls
           /\ ~HasSig(issued', "sendMessageBatch")
           /\ sendResult.state = "rejected" => sendResult' = sendResult ]_vars

\* Of three calls the second to complete failed; the other two were answered.
C20_Witness ==
  /\ Len(sendDone) = 3
  /\ sendDone[1].ok
  /\ ~sendDone[2].ok
  /\ sendDone[3].ok
  /\ sendResult.state = "rejected"
  /\ sendResult.error = sendDone[2].idx

\* The age _getNodeAge gives message m now.
Age(m) == now - nodes[m].receivedOn + apiLeadMs

\* The nodes reached from the head of the list by following next.
RECURSIVE ListFrom(_, _)
ListFrom(n, steps) ==
  IF n = 0 \/ steps = 0 THEN {}
  ELSE {n} \cup ListFrom(nodes[n].next, steps - 1)

InList == ListFrom(head, ExtMsgs)

IsRenewCall(c) == c.name = "changeMessageVisibility"

\* C21: the timer callback issues no renew call for a message whose age
\* (time since addMessage plus the lead time) has reached the maximum
\* lifetime: it removes the node from the list and the index and issues
\* nothing; every renew call is for a message below that age and puts the
\* message's next timer at least a second later.
C21_NoRenewalPastLifetime ==
  /\ [](~threw =>
          \A i \in 1..Len(issued) :
            IsRenewCall(issued[i]) => Age(issued[i].arg[1]) < stopAfter)
  /\ [][ (timer # 0 /\ XApply(timerFired(XCur)) /\ ~threw') =>
           IF Age(timer) >= stopAfter
           THEN /\ issued' = <<>>
                /\ cmvCalls' = cmvCalls
                /\ timer \notin index'
                /\ timer \notin InList'
           ELSE /\ Len(issued') = 1
                /\ IsRenewCall(issued'[1])
                /\ issued'[1].arg[1] = timer
                /\ nodes'[timer].timerOn >= now + MsPerSec ]_vars

\* C22: when a renew call fails because the service reports the message as
\* gone, the handler takes the message's node off the list and the index and
\* emits one `autoExtendFail' carrying the message, no `error', and issues no
\* call.
C22_GoneRetiresNode ==
  [][ \A i \in 1..Len(cmvCalls) :
        (~threw /\ XApply(renewCatch(XCur, i, TRUE))) =>
          /\ ~threw'
          /\ emitted' = <<Sig("autoExtendFail", <<cmvCalls[i]>>)>>
          /\ issued' = <<>>
          /\ cmvCalls[i] \notin index'
          /\ cmvCalls[i] \notin InList' ]_vars

\* The message of the renew call the handler that has just run issued, or 0.
Renewed(calls) ==
  IF Len(calls) = 1 /\ IsRenewCall(calls[1]) THEN calls[1].arg[1] ELSE 0

\* When the current lease of message m runs out: receipt plus the visibility
\* timeout until the first renew call, and after a renew call the time of
\* the call plus the extension, which is where _renewNode puts timerOn.
LeaseExpiry(m) ==
  IF nodes[m].timerOn = nodes[m].receivedOn + visTimeout - apiLeadMs
  THEN nodes[m].receivedOn + visTimeout
  ELSE nodes[m].timerOn

\* C23: every renew call for a tracked message, the first and every later
\* one, is placed advancedCallMs before the expiry of the message's current
\* lease.
C23_RenewAheadOfExpiry ==
  [][ (~threw /\ TimerFired /\ ~threw' /\ Renewed(issued') # 0) =>
        now = LeaseExpiry(Renewed(issued')) - apiLeadMs ]_vars

\* C24: a message added with lease duration L and lead time T gets its first
\* renew call L - T after it was added and each later one L after the one
\* before, whatever else is tracked: addMessage sets the message's timer
\* L - T ahead, a renew call sets it L ahead, and every renew call is issued
\* at the time the message's timer was set to.
C24_RenewSchedule ==
  [][ /\ \A m \in XMsgs \ tracked :
           (~threw /\ XApply(extAddMessage(XCur, m))) =>
             nodes'[m].timerOn = now + visTimeout - apiLeadMs
      /\ (~threw /\ TimerFired /\ ~threw' /\ Renewed(issued') # 0) =>
           /\ now = nodes[Renewed(issued')].timerOn
           /\ nodes'[Renewed(issued')].timerOn = now + visTimeout ]_vars

\* The number of getQueueUrl calls placed with the service so far.
UrlIssued == Cardinality({i \in 1..Len(getUrl) : getUrl[i].called})

\* C25: a getQueueUrl call is placed with the service by exactly the
\* invocations made while no URL is cached: none when the URL was given at
\* construction, none once a resolution has completed (the cached URL is
\* never dropped or replaced by another), and one per invocation before
\* that, also when several of them are outstanding together.
C25_ResolvedWhileUnknown ==
  /\ [](queueUrl = OptsUrl => UrlIssued = 0)
  /\ [][ /\ queueUrl # NoUrl => (queueUrl' = queueUrl /\ UrlIssued' = UrlIssued)
         /\ (queueUrl = NoUrl /\ GetQueueUrl) =>
              (UrlIssued' = UrlIssued + 1 /\ issued' = <<Sig("getQueueUrl", <<>>)>>) ]_vars

\* Two invocations placed their calls before either completed, then one
\* completed and a third invocation was answered from the cache.
C25_Witness ==
  /\ queueUrl = SqsUrl
  /\ UrlIssued = 2
  /\ \E i \in 1..Len(getUrl) : ~getUrl[i].called /\ getUrl[i].value = SqsUrl
  /\ \E i \in 1..Len(getUrl) : getUrl[i].called /\ getUrl[i].state = "pending"

\* C25 as stated: at most one getQueueUrl call per instance, and none when
\* a queue URL was given at construction.
C25_ResolvedAtMostOnce ==
  /\ UrlIssued <= 1
  /\ queueUrl = OptsUrl => UrlIssued = 0

\* C26: stop(true) with a receive outstanding leaves it outstanding and
\* emits nothing; while the receive stays outstanding no `aborted' is
\* emitted; and when it completes on the stopped poller every message it
\* returned is emitted and inFlight grows by one for each.
C26_SoftStopDelivers ==
  [][ /\ (activeReq = "open" /\ StopWith(TRUE)) =>
           (activeReq' = "open" /\ emitted' = <<>> /\ issued' = <<>>)
      /\ activeReq = "open" => ~HasSig(emitted', "aborted")
      /\ (~running /\ ReceiveResolvedQuiet) =>
           LET messages == sqsReceive(sqsMsgs, receiveBatchSize)
           IN /\ MessageIds(emitted') = messages
              /\ inFlight' = inFlight + Len(messages)
              /\ delivered' = delivered \cup {messages[i] : i \in 1..Len(messages)}
              /\ activeReq' = "none"
              /\ ~running' ]_vars

\* A stopped poller has just emitted a received message and counts it.
C26_Witness ==
  /\ ~running
  /\ CountSig(emitted, "message") >= 1
  /\ inFlight >= CountSig(emitted, "message")
  /\ activeReq = "none"

\* C27: at most one receive is outstanding at any time: a handler issues at
\* most one receive, and only when no receive is outstanding as it starts or
\* when it is the completion of the outstanding one; so a start() or a poll
\* attempt that finds a receive outstanding, open or cancelled, issues none.
C27_OneReceiveOutstanding ==
  [][ /\ CountSig(issued', "receiveMessage") <= 1
      /\ HasSig(issued', "receiveMessage") =>
           /\ activeReq' = "open"
           /\ \/ activeReq = "none"
              \/ activeReq = "open" /\ ReceiveResolved
      /\ (activeReq # "none" /\ (Start \/ StartPollerResolved \/ PollTimerFired)) =>
           (issued' = <<>> /\ activeReq' = activeReq) ]_vars

\* The first receive is outstanding, nothing has been delivered, and the
\* handler that has just run (a second start(), or the poll attempt of a
\* start() that followed a soft stop) issued nothing.
C27_Witness ==
  /\ running
  /\ activeReq = "open"
  /\ issued = <<>>
  /\ pendingStart = 0
  /\ pollTimers = 0
  /\ gotLog = <<>>

\* C28: whenever the poller is running and not paused at the cap, polling is
\* alive: a receive is outstanding, or a poll timer is pending, or a poll
\* attempt is pending.
C28_PollingAlive ==
  (running /\ ~paused) => (activeReq # "none" \/ pollTimers > 0 \/ pendingStart > 0)

C30_QueueBelowBatch ==
  [][ ((\E m \in Msgs : DeleteCalled(m)) \/ DelTimerFired) =>
        /\ Len(delQueue') < deleteBatchSize
        /\ delTimer' <=> (delQueue' # <<>>) ]_vars

\* A deleteMessage() below a batch size of three has queued a second entry
\* behind the pending timer.
C30_Witness ==
  /\ deleteBatchSize = 3
  /\ Len(delQueue) = 2
  /\ delTimer
  /\ issued = <<>>
  /\ Cardinality(handled) = 2

IsBatchDelete(c) == c.name = "deleteMessageBatch"

\* The entries of the batch-delete call the handler that has just run
\* issued, or the empty sequence if it issued none.
SentBatch(calls) ==
  LET sel == SelectSeq(calls, IsBatchDelete)
  IN IF sel = <<>> THEN <<>> ELSE sel[1].arg

DisposalStep ==
  \/ \E m \in delivered \ handled :
       \/ Apply(msgDel(Cur, m))
       \/ Apply(msgKeep(Cur, m))
       \/ Apply(msgRelease(Cur, m))
  \/ DirectHandled
  \/ DirectDelete
  \/ DirectRelease

\* C32: a disposal decrements inFlight within the call and, if the poller is
\* paused and the decrement frees a batch of slots, clears paused and
\* schedules a poll attempt within the same call, whether or not the call
\* sends anything to the service; and the answer to a batch-delete call,
\* success or failure, changes neither inFlight nor the poller.
C32_SlotFreedAtDisposal ==
  [][ /\ DisposalStep =>
           /\ inFlight' = inFlight - 1
           /\ IF paused /\ inFlight - 1 <= maxInFlight - receiveBatchSize
              THEN ~paused' /\ pendingStart' = pendingStart + 1
              ELSE paused' = paused /\ pendingStart' = pendingStart
      /\ (DeleteResolved \/ DeleteFailed) =>
           /\ inFlight' = inFlight
           /\ paused' = paused
           /\ pendingStart' = pendingStart
           /\ issued' = <<>> ]_vars

\* Both delivered messages have been disposed of, which resumed the paused
\* poller, while the delete entry of one is still queued and nothing has been
\* sent to the service.
C32_Witness ==
  /\ maxInFlight = DispDepth
  /\ Cardinality(delivered) = DispDepth
  /\ handled = delivered
  /\ inFlight = 0
  /\ ~paused
  /\ pendingStart = 1
  /\ Len(delQueue) = 1
  /\ delCalls = <<>>
  /\ directCalls = 0

\* The node reached from the head after following `steps' next links, 0 if
\* the list ends before.
RECURSIVE NodeAt(_, _)
NodeAt(n, steps) == IF n = 0 \/ steps = 0 THEN n ELSE NodeAt(nodes[n].next, steps - 1)

\* C33: the extender's list is well formed: following next links from the
\* head visits exactly the messages in the index, each once, and ends at the
\* tail; prev links mirror next links; and the head is empty exactly when
\* the index is empty.
C33_WellFormedList ==
  ~threw =>
    /\ InList = index
    /\ NodeAt(head, Cardinality(index)) = 0
    /\ (head = 0) <=> (index = {})
    /\ index # {} => (tail \in index /\ nodes[tail].next = 0 /\ nodes[head].prev = 0)
    /\ \A n \in index :
         /\ nodes[n].next # 0 => nodes[nodes[n].next].prev = n
         /\ nodes[n].prev # 0 => nodes[nodes[n].prev].next = n

\* C34: the head of the extender's list has the smallest timerOn of all
\* tracked messages, and each tracked message's timerOn is at most that of
\* the tracked message its next link leads to.
C34_OrderedByDeadline ==
  (~threw /\ head # 0) =>
    /\ \A n \in index : nodes[head].timerOn <= nodes[n].timerOn
    /\ \A n \in index :
         (nodes[n].next \in index /\ n # tail) => nodes[n].timerOn <= nodes[nodes[n].next].timerOn

\* C35: the extender's timer is pending exactly when the list is not empty;
\* it is the timer of the current head, armed for the head's timerOn (or for
\* the moment it was armed, if timerOn had passed by then); and no timer is
\* pending when no message is tracked.
C35_TimerFollowsHead ==
  ~threw =>
    /\ (timer # 0) <=> (head # 0)
    /\ timer # 0 =>
         /\ timer = head
         /\ timerAt >= nodes[head].timerOn
         /\ timerAt = nodes[head].timerOn \/ timerAt <= now
    /\ index = {} => timer = 0

\* C36: deleteMessage for a message that is not in the index (never added,
\* already removed, or retired) throws nothing and leaves the head, the
\* tail, every node and link, the index and the timer as they were, and
\* emits and issues nothing.
C36_DeleteUntrackedNoOp ==
  [][ \A m \in XMsgs \ index :
        (~threw /\ XApply(extDeleteMessage(XCur, m))) =>
          /\ ~threw'
          /\ UNCHANGED <<head, tail, nodes, index, timer, timerAt, cmvCalls>>
          /\ emitted' = <<>>
          /\ issued' = <<>> ]_vars

\* deleteMessage has been called for a message that was never added and for
\* the message that was, and a timer is pending.
C36_Witness ==
  /\ ~threw
  /\ disposed \ tracked # {}
  /\ disposed \cap tracked # {}
  /\ timer # 0

\* C37 (as stated): every renew call asks for min(visTimeout, stopAfter - age) in whole
\* seconds, age being the time since addMessage plus the lead time, so the
\* renewed lease never runs past stopAfter after the message was added.
C37_RenewWithinLifetime ==
  [][ (~threw /\ TimerFired /\ ~threw' /\ Renewed(issued') # 0) =>
        LET n == Renewed(issued')
            secs == issued'[1].arg[2]
        IN /\ secs = Min(visTimeout, stopAfter - Age(n)) \div MsPerSec
           /\ now + secs * MsPerSec <= nodes[n].receivedOn + stopAfter ]_vars

\* C37 (amended): a renew call is placed only for a message whose age, the
\* time since addMessage plus the lead time, is below stopAfter, and it asks
\* for min(visTimeout, MAX_MESSAGE_AGE_MS - age) in whole seconds: the
\* configured limit decides whether a call is placed, not how long it
\* extends, so the renewed lease ends less than one visibility timeout after
\* the configured limit.
C37_RenewWithinServiceLimit ==
  [][ (~threw /\ TimerFired /\ ~threw' /\ Renewed(issued') # 0) =>
        LET n == Renewed(issued')
            secs == issued'[1].arg[2]
        IN /\ Age(n) < stopAfter
           /\ secs = Min(visTimeout, MAX_MESSAGE_AGE_MS - Age(n)) \div MsPerSec
           /\ now + secs * MsPerSec < nodes[n].receivedOn + stopAfter + visTimeout ]_vars

\* A renew call has just extended a lease past the configured age limit.
C37_Witness ==
  /\ ~threw
  /\ Renewed(issued) # 0
  /\ now + issued[1].arg[2] * MsPerSec > nodes[Renewed(issued)].receivedOn + stopAfter
  /\ Renewed(issued) \in index

\* C38 (as stated): when a renew call fails for a reason other than `gone',
\* one `error' is emitted and the node is retired: the message is no longer
\* in the index nor in the list.
C38_FailureRetires ==
  [][ \A i \in 1..Len(cmvCalls) :
        (~threw /\ XApply(renewCatch(XCur, i, FALSE))) =>
          /\ emitted' = <<Sig("error", <<>>)>>
          /\ cmvCalls[i] \notin index'
          /\ cmvCalls[i] \notin InList' ]_vars

\* C38 (amended): when a renew call fails for a reason other than `gone',
\* exactly one `error' is emitted, nothing is issued or thrown, and the list,
\* the index and the timer stay as the renewal left them: a message still
\* tracked stays tracked and keeps its place and its next deadline.
C38_FailureKeepsNode ==
  [][ \A i \in 1..Len(cmvCalls) :
        (~threw /\ XApply(renewCatch(XCur, i, FALSE))) =>
          /\ emitted' = <<Sig("error", <<>>)>>
          /\ issued' = <<>>
          /\ ~threw'
          /\ cmvCalls' = RemoveAt(cmvCalls, i)
          /\ UNCHANGED <<head, tail, nodes, index, timer, timerAt>> ]_vars

\* A failure has just been reported for the tracked message, whose timer is
\* still pending for its next renewal.
C38_Witness ==
  /\ emitted = <<Sig("error", <<>>)>>
  /\ index # {}
  /\ timer \in index
  /\ timerAt > now
  /\ cmvCalls = <<>>

\* C39: when the renew call of a message that was disposed of while the call
\* was in flight fails as `gone', the handler throws nothing and leaves the
\* head, the tail, every node and link, the index and the timer as they
\* were.
C39_GoneAfterDisposalNoOp ==
  [][ \A i \in 1..Len(cmvCalls) :
        (/\ ~threw
         /\ cmvCalls[i] \in disposed
         /\ cmvCalls[i] \notin index
         /\ XApply(renewCatch(XCur, i, TRUE))) =>
          /\ ~threw'
          /\ UNCHANGED <<head, tail, nodes, index, timer, timerAt>> ]_vars

\* C40: at most one disposition takes effect per Message, with one inFlight
\* decrement, also when a `drained' listener disposes of the Message while
\* its first disposal is running: every Message has called Squiss at most
\* once, and the in-flight count is the deliveries less the disposed
\* Messages.
C40_OneDisposition ==
  /\ \A m \in Msgs : disposeCalls[m] = IF m \in handled THEN 1 ELSE 0
  /\ inFlight = Cardinality(delivered) - Cardinality(handled)

====
